---- MODULE Spec2Model ----
(***************************************************************************)
(* Model of packages/xdl/src/start/ExpoUpdatesManifestHandler.ts: the      *)
(* express/connect middleware that serves the expo-updates manifest.       *)
(*                                                                         *)
(* JavaScript values are tagged records: Undefined, Null, Str(s), Num(n),  *)
(* Obj(fields), Arr(items), Err(name, message) and Circular (an object     *)
(* JSON.stringify cannot serialize).  A request URL and a bundle URL are   *)
(* sequences of tokens / characters, so that url.parse and the regular     *)
(* expression of the asset URL resolver are computed, not assumed.         *)
(***************************************************************************)
EXTENDS Naturals, Sequences, FiniteSets, TLC

VARIABLES
  req,      \* req[r]: the IncomingMessage of request r: url and headers
  origin,   \* origin[r]: the parts the client assembled req[r].url from (history)
  pc,       \* pc[r]: where the handler invocation of request r stands
  frame,    \* frame[f]: the local variables of one handler invocation
  res,      \* res[r]: the ServerResponse of request r
  log,      \* log[r]: every call request r's handler made, in order (history)
  ids,      \* how many identifiers uuid.v4() has issued in this process
  now       \* the latest time the process clock was read at

vars == <<req, origin, pc, frame, res, log, ids, now>>

----------------------------------------------------------------------------
(* Bounds of the model. *)

\* Number of requests in flight at once in the concurrent specification.
MaxInFlight == 2

\* Largest number of assets the asset collector finds in the project.
MaxAssets == 2

\* Latest time the process clock reaches.
MaxClock == 1

----------------------------------------------------------------------------
(* JavaScript values. *)

Undefined == [t |-> "undefined"]

Null == [t |-> "null"]

Str(s) == [t |-> "string", v |-> s]

Num(n) == [t |-> "number", v |-> n]

Obj(f) == [t |-> "object", fields |-> f]

Arr(s) == [t |-> "array", items |-> s]

Err(n, m) == [t |-> "error", name |-> n, message |-> m]

\* An object holding a reference to itself.
Circular == [t |-> "circular"]

\* A string kept as its sequence of tokens or characters.
Text(cs) == [t |-> "text", chars |-> cs]

\* ToBoolean: what `!x`, `x || y` and `x ? a : b` test.
Truthy(x) ==
  CASE x.t \in {"undefined", "null"} -> FALSE
    [] x.t = "string" -> x.v # ""
    [] x.t = "text" -> x.chars # <<>>
    [] x.t = "number" -> x.v # 0
    [] OTHER -> TRUE

\* x ?? y
Nullish(x) == x.t \in {"undefined", "null"}

\* A thrown value / a rejection, and a normal return.
Throw(e) == [ok |-> FALSE, error |-> e]

Return(v) == [ok |-> TRUE, value |-> v]

\* Reading a property of null or undefined throws a TypeError.
PropertyOfNullish == Err("TypeError", "Cannot read property of null")

\* e.stack
Stack(e) ==
  CASE Nullish(e) -> Throw(PropertyOfNullish)
    [] e.t = "error" -> Return(Str(e.name \o ": " \o e.message \o "\n    at <anonymous>"))
    [] OTHER -> Return(Undefined)

\* e.toString()
toString(e) ==
  CASE Nullish(e) -> Throw(PropertyOfNullish)
    [] e.t = "error" -> Return(Str(e.name \o ": " \o e.message))
    [] e.t = "string" -> Return(e)
    [] OTHER -> Return(Str("[object Object]"))

RECURSIVE Serializable(_)
\* Whether JSON.stringify(v) returns: it throws a TypeError on a circular structure.
Serializable(v) ==
  CASE v.t = "circular" -> FALSE
    [] v.t = "object" -> \A k \in DOMAIN v.fields : Serializable(v.fields[k])
    [] v.t = "array" -> \A i \in DOMAIN v.items : Serializable(v.items[i])
    [] OTHER -> TRUE

RECURSIVE JsonOf(_)
\* The document JSON.stringify(v) writes: a property whose value is undefined
\* is left out, undefined in an array becomes null.
JsonOf(v) ==
  CASE v.t = "object" ->
         LET keep == {k \in DOMAIN v.fields : v.fields[k].t # "undefined"}
         IN  Obj([k \in keep |-> JsonOf(v.fields[k])])
    [] v.t = "array" ->
         Arr([i \in DOMAIN v.items |->
                IF v.items[i].t = "undefined" THEN Null ELSE JsonOf(v.items[i])])
    [] v.t = "error" -> Obj(<<>>)
    [] OTHER -> v

\* JSON.stringify(v)
JSONstringify(v) ==
  IF Serializable(v)
    THEN Return([t |-> "json", doc |-> JsonOf(v)])
    ELSE Throw(Err("TypeError", "Converting circular structure to JSON"))

----------------------------------------------------------------------------
(* Request URLs: url.parse of node's url module. *)

RECURSIVE Concat(_)
\* The plain string a sequence of tokens spells.
Concat(ts) == IF ts = <<>> THEN "" ELSE Head(ts) \o Concat(Tail(ts))

RECURSIVE IndexOf(_, _, _)
\* The first position >= i of token c in ts, or 0.
IndexOf(ts, c, i) ==
  IF i > Len(ts) THEN 0
  ELSE IF ts[i] = c THEN i
  ELSE IndexOf(ts, c, i + 1)

RECURSIVE Split(_, _)
\* ts split at every token c.
Split(ts, c) ==
  LET i == IndexOf(ts, c, 1)
  IN  IF i = 0 THEN <<ts>>
      ELSE <<SubSeq(ts, 1, i - 1)>> \o Split(SubSeq(ts, i + 1, Len(ts)), c)

\* parse(url).pathname: what precedes the first "?", null when nothing does.
Pathname(u) ==
  LET q == IndexOf(u.chars, "?", 1)
      p == IF q = 0 THEN u.chars ELSE SubSeq(u.chars, 1, q - 1)
  IN  IF p = <<>> THEN Null ELSE Str(Concat(p))

\* parse(url, true).query: the key=value pairs after the first "?", as a
\* sequence of <<key, value>>; a key with no "=" has the value "".
Query(u) ==
  LET q == IndexOf(u.chars, "?", 1)
      s == IF q = 0 THEN <<>> ELSE SubSeq(u.chars, q + 1, Len(u.chars))
      pieces == IF s = <<>> THEN <<>> ELSE Split(s, "&")
      kv(p) == LET e == IndexOf(p, "=", 1)
               IN  IF e = 0 THEN <<Concat(p), "">>
                   ELSE <<Concat(SubSeq(p, 1, e - 1)), Concat(SubSeq(p, e + 1, Len(p)))>>
  IN  [i \in DOMAIN pieces |-> kv(pieces[i])]

\* query[name]: the value of the first pair named `name`, undefined without one.
QueryParam(query, name) ==
  LET hits == {i \in DOMAIN query : query[i][1] = name}
  IN  IF hits = {} THEN Undefined
      ELSE Str(query[CHOOSE i \in hits : \A j \in hits : i <= j][2])

RECURSIVE FormatQuery(_)
\* The query string a client writes for the pairs q.
FormatQuery(q) ==
  IF q = <<>> THEN <<>>
  ELSE (IF Head(q)[2] = "" THEN <<Head(q)[1], "=">> ELSE <<Head(q)[1], "=", Head(q)[2]>>)
       \o (IF Tail(q) = <<>> THEN <<>> ELSE <<"&">> \o FormatQuery(Tail(q)))

\* The request URL a client writes for a path and query pairs.
FormatUrl(path, q) ==
  Text((IF path = "" THEN <<>> ELSE <<path>>)
       \o (IF q = <<>> THEN <<>> ELSE <<"?">> \o FormatQuery(q)))

----------------------------------------------------------------------------
(* getPlatformFromRequest, lines 18-25. *)

\* The plausible bug: the header takes precedence over the query parameter.
getPlatformFromRequestHeaderFirst(request) ==
  LET url == IF Truthy(request.url) THEN Query(request.url) ELSE <<>>
      q == QueryParam(url, "platform")
      h == request.headers["expo-platform"]
      platform == IF Truthy(h) THEN h ELSE q
  IN  IF ~Truthy(platform)
        THEN Throw(Err("Error", "Must specify expo-platform header or query parameter"))
        ELSE Return(platform)

\* The plausible bug: the builder goes on without a platform.
getPlatformFromRequestUnchecked(request) ==
  LET url == IF Truthy(request.url) THEN Query(request.url) ELSE <<>>
      q == QueryParam(url, "platform")
      platform == IF Truthy(q) THEN q ELSE request.headers["expo-platform"]
  IN  Return(IF platform = Undefined THEN Str("undefined") ELSE platform)

getPlatformFromRequest(request) ==
  LET url == IF Truthy(request.url) THEN Query(request.url) ELSE <<>>
      q == QueryParam(url, "platform")
      platform == IF Truthy(q) THEN q ELSE request.headers["expo-platform"]
  IN  IF ~Truthy(platform)
        THEN Throw(Err("Error", "Must specify expo-platform header or query parameter"))
        ELSE Return(platform)

----------------------------------------------------------------------------
(* getManifestResponseAsync, lines 27-88: the pure parts. *)

\* The Map of lines 34-38, in insertion order.
ManifestHeaders ==
  << <<"expo-protocol-version", Num(0)>>,
     <<"expo-sfv-version", Num(0)>>,
     <<"cache-control", Str("private, max-age=0")>>,
     <<"content-type", Str("application/json")>> >>

\* getRuntimeVersionForSDKVersion of @expo/sdk-runtime-versions.
getRuntimeVersionForSDKVersion(sdkVersion) == Str("exposdk:" \o sdkVersion.v)

\* The plausible bug: `||` for `??`, so that an empty runtimeVersion falls
\* through to the sdkVersion.
runtimeVersionOfOr(exp) ==
  IF Truthy(exp.runtimeVersion) THEN exp.runtimeVersion
  ELSE IF Truthy(exp.sdkVersion) THEN getRuntimeVersionForSDKVersion(exp.sdkVersion)
  ELSE Null

\* Lines 54-58: runtimeVersion ?? (sdkVersion ? map(sdkVersion) : null).
runtimeVersionOf(exp) ==
  IF ~Nullish(exp.runtimeVersion) THEN exp.runtimeVersion
  ELSE IF Truthy(exp.sdkVersion) THEN getRuntimeVersionForSDKVersion(exp.sdkVersion)
  ELSE Null

\* Whether lines 54-58 call getRuntimeVersionForSDKVersion.
ConsultsMapping(exp) == Nullish(exp.runtimeVersion) /\ Truthy(exp.sdkVersion)

\* Whether cs starts with the characters p.
StartsWith(cs, p) == Len(cs) >= Len(p) /\ SubSeq(cs, 1, Len(p)) = p

\* bundleUrl.match(/^https?:\/\/.*?\//): the matched prefix, or null.
MatchOrigin(cs) ==
  LET n == IF StartsWith(cs, <<"h", "t", "t", "p", "s", ":", "/", "/">>) THEN 8
           ELSE IF StartsWith(cs, <<"h", "t", "t", "p", ":", "/", "/">>) THEN 7
           ELSE 0
      j == IF n = 0 THEN 0 ELSE IndexOf(cs, "/", n + 1)
  IN  IF j = 0 THEN Null ELSE Text(SubSeq(cs, 1, j))

\* Line 65: path => bundleUrl!.match(/^https?:\/\/.*?\//)![0] + 'assets/' + path
assetUrlResolver(bundleUrl, path) ==
  IF Nullish(bundleUrl) THEN Throw(PropertyOfNullish)
  ELSE LET m == MatchOrigin(bundleUrl.chars)
       IN  IF Nullish(m) THEN Throw(PropertyOfNullish)
           ELSE Return(Text(m.chars \o <<"assets/", path>>))

\* UrlUtils.stripJSExtension: the entry point without a trailing .js.
stripJSExtension(entryPoint) ==
  LET cs == entryPoint.chars
  IN  IF cs # <<>> /\ cs[Len(cs)] = ".js" THEN Text(SubSeq(cs, 1, Len(cs) - 1))
      ELSE entryPoint

\* ProjectAssets.collectManifestAssets: resolves the URL of every asset it
\* finds with the resolver it is given, and rejects when the resolver throws.
collectManifestAssets(found, bundleUrl) ==
  LET urls == [i \in DOMAIN found.paths |-> assetUrlResolver(bundleUrl, found.paths[i])]
      bad == {i \in DOMAIN urls : ~urls[i].ok}
      items == [i \in DOMAIN urls |-> Obj([url |-> urls[i].value])]
  IN  IF bad # {} THEN Throw(urls[CHOOSE i \in bad : \A j \in bad : i <= j].error)
      ELSE Return(Arr(IF found.circular THEN items \o <<Circular>> ELSE items))

\* The plausible bug: the id and the timestamp are made once, when the module
\* is loaded, and kept for every manifest.
expoUpdatesManifestCached(id, createdAt, f, assets) ==
  Obj([id |-> [t |-> "uuid", n |-> 1],
       createdAt |-> [t |-> "isoDate", ms |-> 0],
       runtimeVersion |-> f.runtimeVersion,
       launchAsset |-> Obj([key |-> f.mainModuleName,
                            contentType |-> Str("application/javascript"),
                            url |-> f.bundleUrl]),
       assets |-> assets,
       metadata |-> Obj(<<>>),
       extra |-> Obj([expoGoConfig |-> Obj(f.exp)])])

\* The plausible bug: metadata is only set when the project has assets.
expoUpdatesManifestNoMetadata(id, createdAt, f, assets) ==
  Obj([id |-> [t |-> "uuid", n |-> id],
       createdAt |-> [t |-> "isoDate", ms |-> createdAt],
       runtimeVersion |-> f.runtimeVersion,
       launchAsset |-> Obj([key |-> f.mainModuleName,
                            contentType |-> Str("application/javascript"),
                            url |-> f.bundleUrl]),
       assets |-> assets,
       metadata |-> IF assets.items = <<>> THEN Undefined ELSE Obj(<<>>),
       extra |-> Obj([expoGoConfig |-> Obj(f.exp)])])

\* Lines 68-82.
expoUpdatesManifest(id, createdAt, f, assets) ==
  Obj([id |-> [t |-> "uuid", n |-> id],
       createdAt |-> [t |-> "isoDate", ms |-> createdAt],
       runtimeVersion |-> f.runtimeVersion,
       launchAsset |-> Obj([key |-> f.mainModuleName,
                            contentType |-> Str("application/javascript"),
                            url |-> f.bundleUrl]),
       assets |-> assets,
       metadata |-> Obj(<<>>),
       extra |-> Obj([expoGoConfig |-> Obj(f.exp)])])

----------------------------------------------------------------------------
(* The handler of getManifestHandler(projectRoot), lines 90-132, as a     *)
(* state machine.  An invocation runs without interruption from one await *)
(* to the next; pc[r] is the await (or the microtask) it stands at.       *)

\* The projectRoot the handler was made for, and Config.developerTool.
projectRoot == Str("/project")

developerTool == Str("expo-cli")

ManifestPath == "/update-manifest-experimental"

\* The local variables of an invocation before it has run.
NoFrame ==
  [headers |-> <<>>, platform |-> Undefined, host |-> Undefined,
   projectConfig |-> Undefined, mainModuleName |-> Undefined, exp |-> <<>>,
   runtimeVersion |-> Undefined, bundleUrl |-> Undefined, body |-> Undefined,
   e |-> Undefined]

\* A ServerResponse nobody has written to: node's default status is 200.
NoResponse == [statusCode |-> 200, headers |-> <<>>, bodies |-> <<>>]

\* A call the handler makes, with its arguments.
Call(op, args) == [op |-> op, args |-> args]

\* The plausible bug: the locals are module-level variables, one set for
\* every invocation.
FrameShared(r) == 1

\* Each invocation of the async functions has local variables of its own.
Frame(r) == r

\* The plausible bug: the route is compared by prefix.
RouteMatchesPrefix(request) ==
  /\ Truthy(request.url)
  /\ request.url.chars[1] = ManifestPath \/ request.url.chars[1] = ManifestPath \o "/"

\* Line 97: req.url && parse(req.url).pathname === '/update-manifest-experimental'
RouteMatches(request) ==
  /\ Truthy(request.url)
  /\ Pathname(request.url) = Str(ManifestPath)

\* Lines 97-100 and, for a matching request, lines 103 and 34-53: up to the
\* await of the classic-manifest provider.  config and entry are what
\* getConfig and resolveEntryPoint return or throw.
HandlerEntry(r, config, entry) ==
  /\ pc[r] = "start"
  /\ UNCHANGED <<req, origin, res, ids, now>>
  /\ IF ~RouteMatches(req[r])
       THEN /\ log' = [log EXCEPT ![r] = Append(@, Call("next", <<>>))]
            /\ pc' = [pc EXCEPT ![r] = "done"]
            /\ UNCHANGED frame
       ELSE LET f == Frame(r)
                platform == getPlatformFromRequest(req[r])
                host == req[r].headers["host"]
                f1 == [frame[f] EXCEPT !.headers = ManifestHeaders]
                thrown(fr, e, calls) ==
                  /\ frame' = [frame EXCEPT ![f] = [fr EXCEPT !.e = e]]
                  /\ pc' = [pc EXCEPT ![r] = "catch"]
                  /\ log' = [log EXCEPT ![r] = @ \o calls]
                getConfig == Call("getConfig", <<projectRoot>>)
            IN  IF ~platform.ok THEN thrown(f1, platform.error, <<>>)
                ELSE LET f2 == [f1 EXCEPT !.platform = platform.value, !.host = host]
                         resolveEntryPoint ==
                           Call("resolveEntryPoint", <<projectRoot, f2.platform, config.value>>)
                     IN  IF ~config.ok THEN thrown(f2, config.error, <<getConfig>>)
                         ELSE IF ~entry.ok
                           THEN thrown([f2 EXCEPT !.projectConfig = config.value],
                                       entry.error, <<getConfig, resolveEntryPoint>>)
                         ELSE /\ frame' = [frame EXCEPT ![f] =
                                   [f2 EXCEPT !.projectConfig = config.value,
                                              !.mainModuleName = stripJSExtension(entry.value)]]
                              /\ pc' = [pc EXCEPT ![r] = "awaitClassic"]
                              /\ log' = [log EXCEPT ![r] = @ \o
                                   <<getConfig, resolveEntryPoint,
                                     Call("getClassicManifestResponseAsync",
                                          <<projectRoot, f2.platform, f2.host>>)>>]

\* Lines 47-66: the classic-manifest provider settles with `classic`; on a
\* manifest the runtime version and the bundle URL are taken from it and the
\* asset collector is called.
ClassicManifestSettles(r, classic) ==
  /\ pc[r] = "awaitClassic"
  /\ UNCHANGED <<req, origin, res, ids, now>>
  /\ LET f == Frame(r)
     IN  IF ~classic.ok
           THEN /\ frame' = [frame EXCEPT ![f].e = classic.error]
                /\ pc' = [pc EXCEPT ![r] = "catch"]
                /\ log' = [log EXCEPT ![r] = Append(@, Call("await", <<classic>>))]
           ELSE LET exp == classic.value
                IN  /\ frame' = [frame EXCEPT ![f].exp = exp,
                                              ![f].runtimeVersion = runtimeVersionOf(exp),
                                              ![f].bundleUrl = exp.bundleUrl]
                    /\ pc' = [pc EXCEPT ![r] = "awaitAssets"]
                    /\ log' = [log EXCEPT ![r] = @ \o <<Call("await", <<classic>>)>> \o
                         (IF ConsultsMapping(exp)
                            THEN <<Call("getRuntimeVersionForSDKVersion", <<exp.sdkVersion>>)>>
                            ELSE <<>>)
                         \o <<Call("collectManifestAssets",
                                   <<projectRoot, frame[f].projectConfig.fields.exp>>)>>]

\* Lines 62-88: the asset collector settles: `found` is what it finds in the
\* project, or its own failure; t is the time the clock is read at.  The
\* log keeps, as "await", what each await resumed with.
CollectAssetsSettles(r, found, t) ==
  /\ pc[r] = "awaitAssets"
  /\ t >= now
  /\ UNCHANGED <<req, origin, res>>
  /\ LET f == Frame(r)
         assets == IF found.ok THEN collectManifestAssets(found.value, frame[f].bundleUrl)
                   ELSE found
     IN  /\ log' = [log EXCEPT ![r] = Append(@, Call("await", <<assets>>))]
         /\ IF ~assets.ok
           THEN /\ frame' = [frame EXCEPT ![f].e = assets.error]
                /\ pc' = [pc EXCEPT ![r] = "catch"]
                /\ UNCHANGED <<ids, now>>
           ELSE /\ frame' = [frame EXCEPT ![f].body =
                     expoUpdatesManifest(ids + 1, t, frame[f], assets.value)]
                /\ pc' = [pc EXCEPT ![r] = "respond"]
                /\ ids' = ids + 1
                /\ now' = t

\* Lines 108-121: the headers, the body, the analytics event; analytics is
\* what Analytics.logEvent returns or throws.
HandlerResume(r, analytics) ==
  /\ pc[r] = "respond"
  /\ UNCHANGED <<req, origin, ids, now>>
  /\ LET f == Frame(r)
         hs == frame[f].headers
         setHeaders == [i \in DOMAIN hs |-> Call("setHeader", hs[i])]
         json == JSONstringify(frame[f].body)
         written == [res[r] EXCEPT !.headers = @ \o hs]
         logEvent == Call("Analytics.logEvent",
                          <<Str("Serve Expo Updates Manifest"),
                            Obj([projectRoot |-> projectRoot,
                                 developerTool |-> developerTool,
                                 runtimeVersion |-> frame[f].body.fields.runtimeVersion])>>)
     IN  IF ~json.ok
           THEN /\ res' = [res EXCEPT ![r] = written]
                /\ log' = [log EXCEPT ![r] = @ \o setHeaders]
                /\ frame' = [frame EXCEPT ![f].e = json.error]
                /\ pc' = [pc EXCEPT ![r] = "catch"]
           ELSE /\ res' = [res EXCEPT ![r] = [written EXCEPT !.bodies = Append(@, json.value)]]
                /\ log' = [log EXCEPT ![r] = @ \o setHeaders
                             \o <<Call("end", <<json.value>>), logEvent>>]
                /\ IF analytics.ok
                     THEN /\ pc' = [pc EXCEPT ![r] = "done"]
                          /\ UNCHANGED frame
                     ELSE /\ frame' = [frame EXCEPT ![f].e = analytics.error]
                          /\ pc' = [pc EXCEPT ![r] = "catch"]

\* Lines 122-131: the catch block; logged is what ProjectUtils.logError
\* returns or throws.  A failure in the catch block rejects the promise the
\* handler returned.
HandlerCatch(r, logged) ==
  /\ pc[r] = "catch"
  /\ UNCHANGED <<req, origin, frame, ids, now>>
  /\ LET e == frame[Frame(r)].e
         stack == Stack(e)
         logError == Call("ProjectUtils.logError", <<projectRoot, Str("expo"), stack.value>>)
         text == toString(e)
         json == JSONstringify(Obj([error |-> text.value]))
     IN  IF ~stack.ok
           THEN /\ pc' = [pc EXCEPT ![r] = "rejected"]
                /\ UNCHANGED <<res, log>>
         ELSE IF ~logged.ok
           THEN /\ pc' = [pc EXCEPT ![r] = "rejected"]
                /\ log' = [log EXCEPT ![r] = Append(@, logError)]
                /\ UNCHANGED res
         ELSE IF ~text.ok
           THEN /\ pc' = [pc EXCEPT ![r] = "rejected"]
                /\ log' = [log EXCEPT ![r] = @ \o <<logError, Call("statusCode", <<520>>)>>]
                /\ res' = [res EXCEPT ![r].statusCode = 520]
         ELSE /\ pc' = [pc EXCEPT ![r] = "done"]
              /\ log' = [log EXCEPT ![r] = @ \o
                   <<logError, Call("statusCode", <<520>>), Call("end", <<json.value>>)>>]
              /\ res' = [res EXCEPT ![r].statusCode = 520,
                                    ![r].bodies = Append(@, json.value)]

----------------------------------------------------------------------------
(* The requests and the collaborators' outcomes the model draws from. *)

\* The characters of the bundle URLs.
HttpUrl == <<"h", "t", "t", "p", ":", "/", "/", "h", "/", "b">>

HttpsUrl == <<"h", "t", "t", "p", "s", ":", "/", "/", "h", "/", "b">>

BareHostUrl == <<"h", "t", "t", "p", ":", "/", "/", "h">>

FtpUrl == <<"f", "t", "p", ":", "/", "/", "h", "/", "b">>

BundleUrls == {Undefined, Text(HttpUrl), Text(HttpsUrl), Text(BareHostUrl), Text(FtpUrl)}

\* What a client assembles a request URL from: no URL at all, or a path and
\* query pairs.
NoUrl == [url |-> FALSE, path |-> "", query |-> <<>>]

Origins ==
  {NoUrl} \cup
  [url : {TRUE},
   path : {"", ManifestPath, ManifestPath \o "/", "/"},
   query : {<<>>,
            << <<"platform", "ios">> >>,
            << <<"platform", "">> >>,
            << <<"foo", "bar">>, <<"platform", "android">> >>}]

HeaderPlatforms == {Undefined, Str(""), Str("android")}

Hosts == {Undefined, Str("localhost:19000")}

\* The values a collaborator throws or rejects with.
Thrown == {Err("Error", "boom"), Str("failed"), Str(""), Null}

Outcomes(values) == {Return(v) : v \in values} \cup {Throw(e) : e \in Thrown}

ProjectConfig == Obj([exp |-> Obj([name |-> Str("app")])])

EntryPoints == {Text(<<"index", ".js">>)}

ClassicManifests ==
  [runtimeVersion : {Undefined, Str(""), Str("1.0.0")},
   sdkVersion : {Undefined, Str(""), Str("45.0.0")},
   bundleUrl : BundleUrls]

RECURSIVE AssetPaths(_)
\* The paths of a project with n assets.
AssetPaths(n) ==
  IF n = 0 THEN <<>>
  ELSE Append(AssetPaths(n - 1), IF n % 2 = 1 THEN "a.png" ELSE "b.ttf")

Found == [paths : {AssetPaths(n) : n \in 0..MaxAssets}, circular : BOOLEAN]

\* The request req[r] that a client assembles from o, hp and h.
RequestOf(o, hp, h) ==
  [url |-> IF o.url THEN FormatUrl(o.path, o.query) ELSE Undefined,
   headers |-> [n \in {"expo-platform", "host"} |-> IF n = "host" THEN h ELSE hp]]

\* Requests R have arrived and no handler has run.
Arrived(R, os, hps, hs) ==
  /\ origin \in [R -> os]
  /\ \E hp \in [R -> hps], h \in [R -> hs] :
       req = [r \in R |-> RequestOf(origin[r], hp[r], h[r])]
  /\ pc = [r \in R |-> "start"]
  /\ frame = [r \in R |-> NoFrame]
  /\ res = [r \in R |-> NoResponse]
  /\ log = [r \in R |-> <<>>]
  /\ ids = 0
  /\ now = 0

\* One request, any of the requests and outcomes above.
Init == Arrived({1}, Origins, HeaderPlatforms, Hosts)

Next ==
  \/ \E r \in DOMAIN pc, config \in Outcomes({ProjectConfig}), entry \in Outcomes(EntryPoints) :
       HandlerEntry(r, config, entry)
  \/ \E r \in DOMAIN pc, classic \in Outcomes(ClassicManifests) :
       ClassicManifestSettles(r, classic)
  \/ \E r \in DOMAIN pc, found \in Outcomes(Found), t \in 0..MaxClock :
       CollectAssetsSettles(r, found, t)
  \/ \E r \in DOMAIN pc, analytics \in Outcomes({Undefined}) : HandlerResume(r, analytics)
  \/ \E r \in DOMAIN pc, logged \in Outcomes({Undefined}) : HandlerCatch(r, logged)

Spec == Init /\ [][Next]_vars

\* Requests in flight together: each is one of two clients' requests, and
\* the collaborators answer with one of a few outcomes.
ConcOrigins ==
  [url : {TRUE}, path : {ManifestPath}, query : {<<>>, << <<"platform", "ios">> >>}]

ConcManifests ==
  {[runtimeVersion |-> Str("1.0.0"), sdkVersion |-> Undefined, bundleUrl |-> Text(HttpUrl)],
   [runtimeVersion |-> Undefined, sdkVersion |-> Str("45.0.0"), bundleUrl |-> Text(HttpsUrl)]}

ConcFound == {[paths |-> AssetPaths(1), circular |-> FALSE]}

Failure == Throw(Err("Error", "boom"))

InitConc == Arrived(1..MaxInFlight, ConcOrigins, {Str("android")}, {Str("localhost:19000")})

NextConc ==
  \/ \E r \in DOMAIN pc : HandlerEntry(r, Return(ProjectConfig), Return(Text(<<"index", ".js">>)))
  \/ \E r \in DOMAIN pc, classic \in {Return(m) : m \in ConcManifests} \cup {Failure} :
       ClassicManifestSettles(r, classic)
  \/ \E r \in DOMAIN pc : CollectAssetsSettles(r, Return(CHOOSE f \in ConcFound : TRUE), now)
  \/ \E r \in DOMAIN pc, analytics \in {Return(Undefined), Failure} : HandlerResume(r, analytics)
  \/ \E r \in DOMAIN pc : HandlerCatch(r, Return(Undefined))

SpecConc == InitConc /\ [][NextConc]_vars

\* Requests for the same project, numbered in the order they are made: the
\* handler of request r is called once the handlers of the requests before
\* it were.  The clock moves on between the requests' steps.
MadeInOrder(r) == \A q \in DOMAIN pc : q < r => pc[q] # "start"

InitClock ==
  Arrived(1..MaxInFlight, {[url |-> TRUE, path |-> ManifestPath, query |-> <<>>]},
          {Str("android")}, {Str("localhost:19000")})

NextClock ==
  \/ \E r \in DOMAIN pc :
       /\ MadeInOrder(r)
       /\ HandlerEntry(r, Return(ProjectConfig), Return(Text(<<"index", ".js">>)))
  \/ \E r \in DOMAIN pc, m \in ConcManifests : ClassicManifestSettles(r, Return(m))
  \/ \E r \in DOMAIN pc, t \in 0..MaxClock :
       CollectAssetsSettles(r, Return(CHOOSE f \in ConcFound : TRUE), t)
  \/ \E r \in DOMAIN pc, analytics \in {Return(Undefined), Failure} : HandlerResume(r, analytics)
  \/ \E r \in DOMAIN pc : HandlerCatch(r, Return(Undefined))

SpecClock == InitClock /\ [][NextClock]_vars

----------------------------------------------------------------------------
(* What the properties below speak of. *)

Requests == DOMAIN pc

\* The calls of request r named op, in order.
CallsOf(r, op) == SelectSeq(log[r], LAMBDA c : c.op = op)

\* The position in log[r] of the first call named op, or 0.
FirstCall(r, op) ==
  LET hits == {i \in DOMAIN log[r] : log[r][i].op = op}
  IN  IF hits = {} THEN 0 ELSE CHOOSE i \in hits : \A j \in hits : i <= j

\* The client asked for the manifest route: it sent a URL whose path is
\* exactly the manifest path, with any query.
AskedForManifest(r) == origin[r].url /\ origin[r].path = ManifestPath

\* The value of the query parameter `platform` the client wrote, as a set:
\* empty when the client wrote none.
AskedPlatform(r) ==
  {origin[r].query[i][2] : i \in {j \in DOMAIN origin[r].query : origin[r].query[j][1] = "platform"}}

IsManifestBody(b) == "launchAsset" \in DOMAIN b.doc.fields

IsErrorBody(b) == "error" \in DOMAIN b.doc.fields

\* The bodies written to the response of request r.
ManifestWritten(r) == \E i \in DOMAIN res[r].bodies : IsManifestBody(res[r].bodies[i])

ErrorWritten(r) == \E i \in DOMAIN res[r].bodies : IsErrorBody(res[r].bodies[i])

\* The handler's promise has settled.
Finished(r) == pc[r] \in {"done", "rejected"}

\* A failure was raised while request r was handled.
FailureRaised(r) == pc[r] \in {"catch", "rejected"} \/ FirstCall(r, "ProjectUtils.logError") # 0

----------------------------------------------------------------------------
(* C1: a request with no URL, or whose pathname is not exactly the manifest  *)
(* path, is passed on: next() is called once with no argument, and nothing  *)
(* else happens: no header, no status, no body, no collaborator.            *)

----------------------------------------------------------------------------
(* C2: a handled request ends with exactly one body written: the manifest   *)
(* or the error body, never both and never neither, whatever the            *)
(* collaborators (the analytics sink and the error logger included) do.     *)

C2_ExactlyOneBody ==
  \A r \in Requests :
    AskedForManifest(r) =>
      /\ Len(res[r].bodies) <= 1
      /\ Finished(r) => Len(res[r].bodies) = 1

----------------------------------------------------------------------------
(* C3: any failure raised while a request is handled ends with status 520   *)
(* and the body {"error": <non-empty string>}, and the handler's promise    *)
(* never rejects.                                                           *)

C3_FailuresEndIn520 ==
  \A r \in Requests :
    /\ pc[r] # "rejected"
    /\ (pc[r] = "done" /\ FailureRaised(r)) =>
         /\ res[r].statusCode = 520
         /\ LET b == res[r].bodies[Len(res[r].bodies)]
            IN  /\ IsErrorBody(b)
                /\ b.doc.fields.error.t = "string"
                /\ b.doc.fields.error.v # ""

----------------------------------------------------------------------------
(* C4, as amended: a query parameter `platform` that is present and not     *)
(* empty is the resolved platform, also when the header disagrees; when the *)
(* query parameter is absent or empty and the header expo-platform is       *)
(* present and not empty, the header's value is; when both are absent or    *)
(* empty, resolution fails and no platform is returned.  The resolved       *)
(* platform is always a non-empty string.                                   *)

MissingPlatform == Err("Error", "Must specify expo-platform header or query parameter")

C4_PlatformResolution ==
  \A r \in Requests :
    (AskedForManifest(r) /\ pc[r] # "start") =>
      LET q == AskedPlatform(r)
          h == req[r].headers["expo-platform"]
          p == frame[r].platform
      IN  /\ (q # {} /\ q # {""}) => \E v \in q : p = Str(v)
          /\ ((q = {} \/ q = {""}) /\ h.t = "string" /\ h.v # "") => p = h
          /\ ((q = {} \/ q = {""}) /\ (h = Undefined \/ h = Str(""))) =>
               /\ p = Undefined
               /\ frame[r].e = MissingPlatform
               /\ FirstCall(r, "getConfig") = 0
          /\ p # Undefined => (p.t = "string" /\ p.v # "")

\* The query parameter wins over a header that disagrees.
C4_Witness ==
  \E r \in Requests :
    /\ AskedPlatform(r) = {"ios"}
    /\ req[r].headers["expo-platform"] = Str("android")
    /\ frame[r].platform = Str("ios")
    /\ pc[r] = "awaitClassic"

\* C4 as stated: a query parameter that is present, empty or not, is the
\* resolved platform; a header that is present, empty or not, is when the
\* query parameter is absent; resolution fails when both are absent.
C4_AsStated ==
  \A r \in Requests :
    (AskedForManifest(r) /\ pc[r] # "start") =>
      LET q == AskedPlatform(r)
          h == req[r].headers["expo-platform"]
          p == frame[r].platform
      IN  /\ q # {} => \E v \in q : p = Str(v)
          /\ (q = {} /\ h # Undefined) => p = h
          /\ (q = {} /\ h = Undefined) => p = Undefined
          /\ p # Undefined => (p.t = "string" /\ p.v # "")

----------------------------------------------------------------------------
(* C5, as amended: a runtimeVersion the classic manifest carries (the empty *)
(* string included) is used verbatim and the SDK mapping is not consulted;  *)
(* otherwise a non-empty sdkVersion is mapped; otherwise (sdkVersion absent *)
(* or the empty string) the manifest's runtimeVersion is null, the mapping  *)
(* is not consulted, and the builder goes on to collect the assets.         *)

C5_RuntimeVersion ==
  \A r \in Requests :
    frame[r].exp # <<>> =>
      LET exp == frame[r].exp
          rv == frame[r].runtimeVersion
          mapped == CallsOf(r, "getRuntimeVersionForSDKVersion")
      IN  /\ exp.runtimeVersion # Undefined => (rv = exp.runtimeVersion /\ mapped = <<>>)
          /\ (exp.runtimeVersion = Undefined /\ exp.sdkVersion \notin {Undefined, Str("")}) =>
               /\ rv = getRuntimeVersionForSDKVersion(exp.sdkVersion)
               /\ mapped = <<Call("getRuntimeVersionForSDKVersion", <<exp.sdkVersion>>)>>
          /\ (exp.runtimeVersion = Undefined /\ exp.sdkVersion \in {Undefined, Str("")}) =>
               (rv = Null /\ mapped = <<>>)
          /\ FirstCall(r, "collectManifestAssets") # 0
          /\ pc[r] = "done" /\ ManifestWritten(r) =>
               res[r].bodies[1].doc.fields.runtimeVersion = rv

\* An empty runtimeVersion is used verbatim although an sdkVersion is there.
C5_Witness ==
  \E r \in Requests :
    /\ frame[r].exp # <<>>
    /\ frame[r].exp.runtimeVersion = Str("")
    /\ frame[r].exp.sdkVersion = Str("45.0.0")
    /\ frame[r].runtimeVersion = Str("")
    /\ pc[r] = "done"
    /\ ManifestWritten(r)

\* C5 as stated: without a runtimeVersion, an sdkVersion that is carried,
\* empty or not, is mapped.
C5_AsStated ==
  \A r \in Requests :
    frame[r].exp # <<>> =>
      LET exp == frame[r].exp
          rv == frame[r].runtimeVersion
      IN  /\ exp.runtimeVersion # Undefined => rv = exp.runtimeVersion
          /\ (exp.runtimeVersion = Undefined /\ exp.sdkVersion # Undefined) =>
               rv = getRuntimeVersionForSDKVersion(exp.sdkVersion)
          /\ (exp.runtimeVersion = Undefined /\ exp.sdkVersion = Undefined) => rv = Null

----------------------------------------------------------------------------
(* C6: a response whose manifest body was written has the four fixed        *)
(* headers, with their exact values and in insertion order, all set before  *)
(* the body is written, and its status code is never set explicitly.        *)

C6_SuccessHeaders ==
  \A r \in Requests :
    ManifestWritten(r) =>
      /\ res[r].headers = ManifestHeaders
      /\ SubSeq(log[r], FirstCall(r, "end") - 4, FirstCall(r, "end") - 1)
           = [i \in 1..4 |-> Call("setHeader", ManifestHeaders[i])]
      /\ FirstCall(r, "statusCode") = 0
      /\ res[r].statusCode # 520

----------------------------------------------------------------------------
(* C7: a request that ends in the error response has none of the manifest   *)
(* headers written to its response.                                         *)

C7_NoPartialResponse ==
  \A r \in Requests : ErrorWritten(r) => res[r].headers = <<>>

----------------------------------------------------------------------------
(* C8: a classic manifest whose bundle URL is missing or has no leading     *)
(* http://host/ or https://host/ never yields a manifest: the request ends  *)
(* in the error response, whatever number of assets the project has.        *)

InvalidBundleUrl(exp) ==
  \/ exp.bundleUrl = Undefined
  \/ MatchOrigin(exp.bundleUrl.chars) = Null

C8_InvalidBundleUrlFails ==
  \A r \in Requests :
    (frame[r].exp # <<>> /\ InvalidBundleUrl(frame[r].exp)) =>
      /\ ~ManifestWritten(r)
      /\ pc[r] = "done" => (res[r].statusCode = 520 /\ ErrorWritten(r))

----------------------------------------------------------------------------
(* C9: on the success path the headers are written, then the body, then     *)
(* exactly one analytics event with the project root, the developer tool    *)
(* and the manifest's runtimeVersion; the event is emitted only after a     *)
(* manifest body was written and never for a request that ends in the       *)
(* error response.                                                          *)

AnalyticsEvent(r) ==
  Call("Analytics.logEvent",
       <<Str("Serve Expo Updates Manifest"),
         Obj([projectRoot |-> projectRoot, developerTool |-> developerTool,
              runtimeVersion |-> frame[r].runtimeVersion])>>)

C9_SuccessOrder ==
  \A r \in Requests :
    /\ (pc[r] = "done" /\ ~ErrorWritten(r) /\ AskedForManifest(r)) =>
         FirstCall(r, "Analytics.logEvent") # 0
    /\ FirstCall(r, "Analytics.logEvent") # 0 =>
         LET n == FirstCall(r, "Analytics.logEvent")
         IN  /\ CallsOf(r, "Analytics.logEvent") = <<AnalyticsEvent(r)>>
             /\ n > 5
             /\ SubSeq(log[r], n - 5, n - 2) = [i \in 1..4 |-> Call("setHeader", ManifestHeaders[i])]
             /\ log[r][n - 1].op = "end"
             /\ IsManifestBody(log[r][n - 1].args[1])
             /\ ~ErrorWritten(r)

----------------------------------------------------------------------------
(* C10: with requests handled concurrently and interleaved at the awaits,   *)
(* what each handler passes to the collaborators and writes to its          *)
(* response comes from its own request and from what the collaborators      *)
(* answered to it, never from another request in flight.                    *)

\* The platform request r asks for.
OwnPlatform(r) ==
  IF AskedPlatform(r) \notin {{}, {""}}
    THEN Str(CHOOSE v \in AskedPlatform(r) : TRUE)
    ELSE req[r].headers["expo-platform"]

\* What the awaits of request r resumed with, in order.
OwnResults(r) == [i \in DOMAIN CallsOf(r, "await") |-> CallsOf(r, "await")[i].args[1]]

C10_NoSharedState ==
  \A r \in Requests :
    /\ \A i \in DOMAIN log[r] :
         /\ log[r][i].op = "resolveEntryPoint" => log[r][i].args[2] = OwnPlatform(r)
         /\ log[r][i].op = "getClassicManifestResponseAsync" =>
              log[r][i].args = <<projectRoot, OwnPlatform(r), req[r].headers["host"]>>
    /\ \A i \in DOMAIN res[r].bodies :
         LET d == res[r].bodies[i].doc.fields
         IN  IF IsManifestBody(res[r].bodies[i])
               THEN /\ Len(OwnResults(r)) = 2
                    /\ d.extra.fields.expoGoConfig = JsonOf(Obj(OwnResults(r)[1].value))
                    /\ d.launchAsset.fields.url = OwnResults(r)[1].value.bundleUrl
                    /\ d.runtimeVersion = runtimeVersionOf(OwnResults(r)[1].value)
                    /\ d.assets = JsonOf(OwnResults(r)[2].value)
                    /\ res[r].headers = ManifestHeaders
               ELSE /\ d.error = Str("Error: boom")
                    /\ \/ \E j \in DOMAIN OwnResults(r) : ~OwnResults(r)[j].ok
                       \/ FirstCall(r, "Analytics.logEvent") # 0
    /\ res[r].statusCode = 520 <=> FirstCall(r, "statusCode") # 0

\* Two requests in flight together: the second built its manifest first, from
\* another platform and another classic manifest, and the first has answered.
C10_Witness ==
  /\ pc[1] = "done" /\ ManifestWritten(1) /\ ~ErrorWritten(1)
  /\ pc[2] = "respond"
  /\ frame[2].body.fields.id.n < res[1].bodies[1].doc.fields.id.n
  /\ OwnPlatform(1) # OwnPlatform(2)
  /\ OwnResults(1)[1] # OwnResults(2)[1]

----------------------------------------------------------------------------
(* C11, as amended: any two manifests sent for the same project have        *)
(* different ids, and their createdAt timestamps are non-decreasing in the  *)
(* order in which the manifests are constructed (each is read from the      *)
(* clock then, none is kept from an earlier request), so that a request     *)
(* made after another one's manifest was constructed never gets an earlier  *)
(* timestamp.                                                               *)

\* The manifest sent to request r: it is the first body written.
ManifestOf(r) == res[r].bodies[1].doc.fields

C11_FreshIdAndTime ==
  /\ \A a \in Requests : ManifestWritten(a) =>
       /\ ManifestOf(a).id.n \in 1..ids
       /\ ManifestOf(a).createdAt.ms <= now
  /\ \A a, b \in Requests :
       (a # b /\ ManifestWritten(a) /\ ManifestWritten(b)) =>
         /\ ManifestOf(a).id # ManifestOf(b).id
         /\ ManifestOf(a).id.n < ManifestOf(b).id.n =>
              ManifestOf(a).createdAt.ms <= ManifestOf(b).createdAt.ms

\* Two manifests sent, the clock having moved on between them.
C11_Witness ==
  /\ ManifestWritten(1) /\ ManifestWritten(2)
  /\ pc[1] = "done" /\ pc[2] = "done"
  /\ ManifestOf(1).id # ManifestOf(2).id
  /\ ManifestOf(1).createdAt.ms < ManifestOf(2).createdAt.ms

\* Request r was handled with success: the manifest was sent, nothing failed.
HandledWithSuccess(r) ==
  pc[r] = "done" /\ ManifestWritten(r) /\ ~ErrorWritten(r) /\ ~FailureRaised(r)

\* C11 as stated: the timestamps are non-decreasing in the order in which the
\* requests were made.
C11_AsStated ==
  \A a, b \in Requests :
    (a < b /\ HandledWithSuccess(a) /\ HandledWithSuccess(b)) =>
      /\ ManifestOf(a).id # ManifestOf(b).id
      /\ ManifestOf(a).createdAt.ms <= ManifestOf(b).createdAt.ms

----------------------------------------------------------------------------
(* C12: every manifest body sent has the field metadata, and it is an empty *)
(* object, whatever the request, the platform, the project configuration    *)
(* and the classic manifest are.                                            *)

C12_MetadataEmpty ==
  \A r \in Requests :
    \A i \in DOMAIN res[r].bodies :
      IsManifestBody(res[r].bodies[i]) =>
        /\ "metadata" \in DOMAIN res[r].bodies[i].doc.fields
        /\ res[r].bodies[i].doc.fields.metadata = Obj(<<>>)

\* A manifest sent for a project without assets, whose classic manifest
\* carries nothing.
C12_Witness ==
  \E r \in Requests :
    /\ pc[r] = "done" /\ ManifestWritten(r) /\ ~ErrorWritten(r)
    /\ ManifestOf(r).assets.items = <<>>
    /\ ManifestOf(r).extra.fields.expoGoConfig = Obj(<<>>)
    /\ ManifestOf(r).metadata = Obj(<<>>)

----------------------------------------------------------------------------
(* C13: within one matched request the builder's steps run in the order     *)
(* platform resolution, getConfig, resolveEntryPoint, classic-manifest      *)
(* provider, runtime-version derivation, asset collection; each             *)
(* collaborator is called at most once; when a step fails no later step is  *)
(* called and the failure is, unmodified, the e of the handler's catch      *)
(* block; after a missing platform no collaborator is called at all.        *)

BuilderOps ==
  <<"getConfig", "resolveEntryPoint", "getClassicManifestResponseAsync",
    "getRuntimeVersionForSDKVersion", "collectManifestAssets">>

\* The place of a builder step in the fixed order.
BuilderRank(op) == CHOOSE i \in DOMAIN BuilderOps : BuilderOps[i] = op

IsBuilderCall(c) == \E i \in DOMAIN BuilderOps : BuilderOps[i] = c.op

\* The builder's calls of request r, in the order they were made.
BuilderCalls(r) == SelectSeq(log[r], IsBuilderCall)

\* An await that resumed by throwing.
IsRejectedAwait(c) == c.op = "await" /\ ~c.args[1].ok

C13_BuilderOrder ==
  \A r \in Requests :
    LET calls == BuilderCalls(r)
        q == AskedPlatform(r)
        h == req[r].headers["expo-platform"]
    IN  /\ \A i, j \in DOMAIN calls :
             i < j => BuilderRank(calls[i].op) < BuilderRank(calls[j].op)
        /\ FirstCall(r, "resolveEntryPoint") # 0 =>
             /\ frame[r].platform # Undefined
             /\ log[r][FirstCall(r, "resolveEntryPoint")].args[2] = frame[r].platform
        /\ Len(CallsOf(r, "await")) <= 2
        /\ \A i \in DOMAIN log[r] :
             log[r][i].op \in {"getRuntimeVersionForSDKVersion", "collectManifestAssets"} =>
               \E j \in 1..(i - 1) :
                 /\ log[r][j].op = "await" /\ log[r][j].args[1].ok
                 /\ FirstCall(r, "getClassicManifestResponseAsync") < j
        /\ \A i \in DOMAIN log[r] :
             IsRejectedAwait(log[r][i]) =>
               /\ \A j \in DOMAIN log[r] :
                    j > i => /\ ~IsBuilderCall(log[r][j])
                             /\ log[r][j].op \notin {"await", "setHeader", "Analytics.logEvent"}
               /\ frame[r].e = log[r][i].args[1].error
               /\ ~ManifestWritten(r)
        /\ (AskedForManifest(r) /\ pc[r] # "start"
              /\ FirstCall(r, "getClassicManifestResponseAsync") = 0) =>
             /\ frame[r].e \in Thrown \cup {MissingPlatform}
             /\ \A i \in DOMAIN calls : calls[i].op \in {"getConfig", "resolveEntryPoint"}
             /\ CallsOf(r, "await") = <<>>
             /\ ~ManifestWritten(r)
        /\ (AskedForManifest(r) /\ pc[r] # "start"
              /\ (q = {} \/ q = {""}) /\ (h = Undefined \/ h = Str(""))) =>
             /\ calls = <<>>
             /\ frame[r].e = MissingPlatform

\* The asset collector fails after every earlier step, the runtime-version
\* derivation included, has run: its failure is the e of the catch block and
\* the error body was sent.
C13_Witness ==
  \E r \in Requests :
    /\ pc[r] = "done"
    /\ Len(BuilderCalls(r)) = 5
    /\ Len(CallsOf(r, "await")) = 2
    /\ IsRejectedAwait(CallsOf(r, "await")[2])
    /\ frame[r].e = Str("failed")
    /\ ErrorWritten(r) /\ ~ManifestWritten(r)

----------------------------------------------------------------------------
(* C14: when a matched request fails, the error is logged exactly once      *)
(* through ProjectUtils.logError with the project root, the tag 'expo' and  *)
(* the failure's stack, then the status code is set to 520, then the error  *)
(* body is written, and these are the handler's last three effects; the     *)
(* logger is never called and 520 never set for a request whose manifest    *)
(* was sent.                                                                *)

\* The three effects of the failure path, for the failure e.
FailureEffects(e) ==
  <<Call("ProjectUtils.logError", <<projectRoot, Str("expo"), Stack(e).value>>),
    Call("statusCode", <<520>>),
    Call("end", <<JSONstringify(Obj([error |-> toString(e).value])).value>>)>>

C14_FailurePathOrder ==
  \A r \in Requests :
    /\ (Finished(r) /\ FailureRaised(r)) =>
         /\ Len(log[r]) >= 3
         /\ SubSeq(log[r], Len(log[r]) - 2, Len(log[r])) = FailureEffects(frame[r].e)
         /\ Len(CallsOf(r, "ProjectUtils.logError")) = 1
         /\ Len(CallsOf(r, "statusCode")) = 1
         /\ res[r].statusCode = 520
    /\ (Finished(r) /\ ManifestWritten(r)) =>
         /\ CallsOf(r, "ProjectUtils.logError") = <<>>
         /\ res[r].statusCode = 200
    /\ res[r].statusCode = 520 => FailureRaised(r)

----------------------------------------------------------------------------
(* C15: a request whose handler has settled is in a terminal state of the   *)
(* two the claim allows: an unmatched request was passed to next, once,     *)
(* with no response; a matched request had its response ended, with the     *)
(* manifest or with the error body, and next was never called for it.       *)

C15_TerminalStates ==
  \A r \in Requests :
    /\ AskedForManifest(r) => CallsOf(r, "next") = <<>>
    /\ Finished(r) =>
         IF AskedForManifest(r)
           THEN res[r].bodies # <<>>
           ELSE /\ CallsOf(r, "next") = <<Call("next", <<>>)>>
                /\ res[r].bodies = <<>>

====
